---- MODULE Spec2Model ----
(***************************************************************************)
(* A model of voyeur (src/voyeur.go): the bus core behind an               *)
(* Emitter/Observable pair, its cancellation watchers, the End event, and  *)
(* Map filters chained on top of it.                                       *)
(*                                                                         *)
(* Goroutines calling Emit are the Threads; each has a call stack of Emit  *)
(* frames (a Map filter's OnEvent calls Emit on the filter's own core from *)
(* inside the upstream dispatch).  Every Register call starts one watcher  *)
(* goroutine.  The mutex of a core is lock[c]; "NoThread" means unlocked.  *)
(***************************************************************************)
EXTENDS Naturals, Sequences, FiniteSets

\* Bounds of the model.
MaxCalls == 4       \* Register calls plus publishers' Emit/End calls in one behaviour

\* Goroutines that publish.
Threads == {"t1", "t2"}
NoThread == "none"

\* Bus cores: "up" is the core made by Pair() in the program and "up2" that of
\* a second Pair() call, "m" the core that Map() makes for its filter
\* (voyeur.go:249) and "m2" the core that a further Map() call makes.
Cores == {"up", "up2", "m", "m2"}
Upstreams == {"up", "up2"}

\* context.Background() and a context made by context.WithCancel.
Background == "bg"
Contexts == {"bg", "c1"}
Cancellable == Contexts \ {Background}

\* Events: stringEvent values (voyeur_test.go:34) and the End sentinel.
\* s is the payload of a stringEvent, a sequence of letters.
StringEvent(s) == [typ |-> "string", s |-> s]
End == [typ |-> "End", s |-> <<>>]
EvA == StringEvent(<<"a">>)
EvB == StringEvent(<<"b">>)
Ev1234 == StringEvent(<<"1", "2", "3", "4">>)
EvAbcd == StringEvent(<<"a", "b", "c", "d">>)

\* The length that the filter of fb.Build(4) lets through.
FilterLen == 4

\* Observers: plain sinks (printObserver in the tests) and one Map filter.
Sinks == {"s1", "s2"}
TheFilter == "flt"
Transforms == {"Fwd", "Noop", "Concat", "Length"}

VARIABLES
  observers,   \* [Cores -> set of keys]: observable.observers
  done,        \* [Cores -> BOOLEAN]: TRUE when observable.done is closed
  lock,        \* [Cores -> Threads \cup {NoThread}]: observable.lock
  regs,        \* sequence, one record per Register call made so far
  watch,       \* sequence, the state of the watcher goroutine of each call
  cancelled,   \* [Cancellable -> BOOLEAN]: ctx.Done() is closed
  stack,       \* [Threads -> sequence of Emit frames], innermost last
  calls,       \* history: one record per Emit call made so far
  recv,        \* history, per Register call: what its OnEvent was given
  transform,   \* the function the Map filter was built with
  acc,         \* the string captured by the Concat transform
  panicked     \* TRUE once the process has died of a panic

vars == <<observers, done, lock, regs, watch, cancelled, stack, calls, recv,
          transform, acc, panicked>>

RegIds == 1..Len(regs)
CallIds == 1..Len(calls)

----------------------------------------------------------------------------
Top(t) == stack[t][Len(stack[t])]
Pop(s) == SubSeq(s, 1, Len(s) - 1)
SetTop(t, f) == [stack EXCEPT ![t] = Append(Pop(stack[t]), f)]

\* The Emit calls made by the publishers (not from inside a dispatch).
TopCalls == {i \in CallIds : calls[i].depth = 1}

\* Register and Emit calls the program has made so far.
CallsMade == Len(regs) + Cardinality(TopCalls)

IsCancelled(x) == x /= Background /\ cancelled[x]

\* The frames of all goroutines.
Frames == UNION {{stack[t][i] : i \in 1..Len(stack[t])} : t \in Threads}

----------------------------------------------------------------------------
\* The state after Pair() (and Map()): empty registries, open done channels.
InitCore ==
  /\ observers = [c \in Cores |-> {}]
  /\ done = [c \in Cores |-> FALSE]
  /\ lock = [c \in Cores |-> NoThread]
  /\ regs = <<>>
  /\ watch = <<>>
  /\ cancelled = [x \in Cancellable |-> FALSE]
  /\ stack = [t \in Threads |-> <<>>]
  /\ calls = <<>>
  /\ recv = <<>>
  /\ acc = <<>>
  /\ panicked = FALSE

Init == InitCore /\ transform = "Fwd"

\* Mutant of NewKey: the registry keyed by the observer's value, so a second
\* registration of an observer lands on the entry of the first.
NewKeyByValue(c, o) ==
  IF \E r \in RegIds : regs[r].core = c /\ regs[r].oer = o /\ regs[r].key \in observers[c]
    THEN (CHOOSE r \in RegIds :
            regs[r].core = c /\ regs[r].oer = o /\ regs[r].key \in observers[c])
    ELSE Len(regs) + 1

\* The key of a new registry entry: &oer, the address of the parameter of
\* this Register call, which no earlier call shares.
NewKey(c, o) == Len(regs) + 1

\* Mutant of Register: the insertion does not take the lock.
RegisterUnlocked(c, o, x) ==
  /\ ~panicked
  /\ CallsMade < MaxCalls
  /\ regs' = Append(regs, [core |-> c, oer |-> o, ctx |-> x, key |-> Len(regs) + 1])
  /\ observers' = [observers EXCEPT ![c] = @ \cup {Len(regs) + 1}]
  /\ watch' = Append(watch, "select")
  /\ recv' = Append(recv, <<>>)
  /\ UNCHANGED <<done, lock, cancelled, stack, calls, transform, acc, panicked>>

\* Mutant of Register: the insertion is left to the watcher goroutine, which
\* has not run yet when Register returns.
RegisterAsync(c, o, x) ==
  /\ ~panicked
  /\ CallsMade < MaxCalls
  /\ regs' = Append(regs, [core |-> c, oer |-> o, ctx |-> x, key |-> Len(regs) + 1])
  /\ watch' = Append(watch, "select")
  /\ recv' = Append(recv, <<>>)
  /\ UNCHANGED <<observers, done, lock, cancelled, stack, calls, transform, acc,
                 panicked>>

\* Mutant of Insert: the insertion does not take the lock.
InsertUnlocked(c, o, x) ==
  /\ ~panicked
  /\ regs' = Append(regs, [core |-> c, oer |-> o, ctx |-> x, key |-> NewKey(c, o)])
  /\ observers' = [observers EXCEPT ![c] = @ \cup {NewKey(c, o)}]
  /\ watch' = Append(watch, "select")
  /\ recv' = Append(recv, <<>>)
  /\ UNCHANGED <<done, lock, cancelled, calls, transform, acc, panicked>>

\* The body of observable.Register: insert under the lock, then start the
\* watcher.
Insert(c, o, x) ==
  /\ ~panicked
  /\ lock[c] = NoThread
  /\ regs' = Append(regs, [core |-> c, oer |-> o, ctx |-> x, key |-> NewKey(c, o)])
  /\ observers' = [observers EXCEPT ![c] = @ \cup {NewKey(c, o)}]
  /\ watch' = Append(watch, "select")
  /\ recv' = Append(recv, <<>>)
  /\ UNCHANGED <<done, lock, cancelled, calls, transform, acc, panicked>>

\* observable.Register called by the program (a call that finds the lock
\* taken waits, and is this step later).
Register(c, o, x) ==
  /\ CallsMade < MaxCalls
  /\ Insert(c, o, x)
  /\ UNCHANGED stack

\* cancel() of a context made by context.WithCancel.
Cancel(x) ==
  /\ ~panicked
  /\ ~cancelled[x]
  /\ cancelled' = [cancelled EXCEPT ![x] = TRUE]
  /\ UNCHANGED <<observers, done, lock, regs, watch, stack, calls, recv,
                 transform, acc, panicked>>

\* Mutant of WatcherDone: the done case deletes the entry too.
WatcherDoneDeletes(r) ==
  /\ ~panicked
  /\ watch[r] = "select"
  /\ done[regs[r].core]
  /\ lock[regs[r].core] = NoThread
  /\ observers' = [observers EXCEPT ![regs[r].core] = @ \ {regs[r].key}]
  /\ watch' = [watch EXCEPT ![r] = "exited"]
  /\ UNCHANGED <<done, lock, regs, cancelled, stack, calls, recv,
                 transform, acc, panicked>>

\* The watcher's select takes "case <-o.done": it returns.
WatcherDone(r) ==
  /\ ~panicked
  /\ watch[r] = "select"
  /\ done[regs[r].core]
  /\ watch' = [watch EXCEPT ![r] = "exited"]
  /\ UNCHANGED <<observers, done, lock, regs, cancelled, stack, calls, recv,
                 transform, acc, panicked>>

\* Mutant of WatcherDelete: the delete is given the address of a copy of the
\* observer, which is no key of the registry.
WatcherDeleteCopy(r) ==
  /\ ~panicked
  /\ watch[r] = "select"
  /\ IsCancelled(regs[r].ctx)
  /\ lock[regs[r].core] = NoThread
  /\ watch' = [watch EXCEPT ![r] = "removed"]
  /\ UNCHANGED <<observers, done, lock, regs, cancelled, stack, calls, recv,
                 transform, acc, panicked>>

\* The watcher's select takes "case <-ctx.Done()": it takes the lock, deletes
\* its entry, unlocks and returns.
WatcherDelete(r) ==
  /\ ~panicked
  /\ watch[r] = "select"
  /\ IsCancelled(regs[r].ctx)
  /\ lock[regs[r].core] = NoThread
  /\ observers' = [observers EXCEPT ![regs[r].core] = @ \ {regs[r].key}]
  /\ watch' = [watch EXCEPT ![r] = "removed"]
  /\ UNCHANGED <<done, lock, regs, cancelled, stack, calls, recv,
                 transform, acc, panicked>>

\* The context a publisher passes to Emit.
CtxOf(t) == IF t = "t1" THEN Background ELSE "c1"

\* The frame of the Emit call with number id once it holds the lock of core c;
\* snap remembers the registry as the call found it.
Locked(id, c) == [id |-> id, pc |-> "range", visited |-> {}, snap |-> observers[c]]

\* Mutant of EmitCall: Emit does not take the lock.
EmitCallNoLock(t, e) ==
  /\ ~panicked
  /\ stack[t] = <<>>
  /\ CallsMade < MaxCalls
  /\ calls' = Append(calls, [core |-> "up", ev |-> e, ctx |-> CtxOf(t), depth |-> 1])
  /\ stack' = [stack EXCEPT ![t] = <<Locked(Len(calls) + 1, "up")>>]
  /\ UNCHANGED <<observers, done, lock, regs, watch, cancelled, recv,
                 transform, acc, panicked>>

\* Publisher t calls Emit(CtxOf(t), e) on the emitter of core c and gets the
\* lock (a call that finds the lock taken waits, and is this step later).
EmitOn(c, t, e) ==
  /\ ~panicked
  /\ stack[t] = <<>>
  /\ lock[c] = NoThread
  /\ lock' = [lock EXCEPT ![c] = t]
  /\ calls' = Append(calls, [core |-> c, ev |-> e, ctx |-> CtxOf(t), depth |-> 1])
  /\ stack' = [stack EXCEPT ![t] = <<Locked(Len(calls) + 1, c)>>]
  /\ UNCHANGED <<observers, done, regs, watch, cancelled, recv,
                 transform, acc, panicked>>

\* em.Emit on the core of Pair(), one of the calls the program makes.
EmitCall(t, e) == CallsMade < MaxCalls /\ EmitOn("up", t, e)

\* emitter.End: Emit(ctx, End).
EndCall(t) == EmitCall(t, End)

\* Mutant of EmitLock: a lock that its holder may take again.
EmitLockReentrant(t) ==
  /\ ~panicked
  /\ stack[t] /= <<>>
  /\ Top(t).pc = "lock"
  /\ lock[calls[Top(t).id].core] \in {NoThread, t}
  /\ lock' = [lock EXCEPT ![calls[Top(t).id].core] = t]
  /\ stack' = SetTop(t, Locked(Top(t).id, calls[Top(t).id].core))
  /\ UNCHANGED <<observers, done, regs, watch, cancelled, calls, recv,
                 transform, acc, panicked>>

\* em.lock.Lock() of an Emit called from inside a dispatch.
EmitLock(t) ==
  /\ ~panicked
  /\ stack[t] /= <<>>
  /\ Top(t).pc = "lock"
  /\ lock[calls[Top(t).id].core] = NoThread
  /\ lock' = [lock EXCEPT ![calls[Top(t).id].core] = t]
  /\ stack' = SetTop(t, Locked(Top(t).id, calls[Top(t).id].core))
  /\ UNCHANGED <<observers, done, regs, watch, cancelled, calls, recv,
                 transform, acc, panicked>>

\* What OnEvent is handed by the Emit call id: its context and its event.
Delivery(id) == [id |-> id, ev |-> calls[id].ev, ctx |-> calls[id].ctx]

\* The entries the range loop of frame f has still to visit.
ToVisit(f) == observers[calls[f.id].core] \ f.visited

\* One iteration of "for o := range em.observers" whose observer is a sink.
SinkOnEvent(t, k) ==
  /\ ~panicked
  /\ stack[t] /= <<>>
  /\ Top(t).pc = "range"
  /\ k \in ToVisit(Top(t))
  /\ regs[k].oer \in Sinks
  /\ recv' = [recv EXCEPT ![k] = Append(@, Delivery(Top(t).id))]
  /\ stack' = SetTop(t, [Top(t) EXCEPT !.visited = @ \cup {k}])
  /\ UNCHANGED <<observers, done, lock, regs, watch, cancelled, calls,
                 transform, acc, panicked>>

\* The transforms: given the captured string a and the event e, the events
\* they emit on the filter's emitter, the new captured string, and whether
\* they panic.
\* Mutant of FwdFunc: Fwd keeps End to itself.
FwdDropsEnd(a, e) ==
  [out |-> IF e = End THEN <<>> ELSE <<e>>, acc |-> a, panic |-> FALSE]

\* Fwd: em.Emit(ctx, e).
FwdFunc(a, e) == [out |-> <<e>>, acc |-> a, panic |-> FALSE]

\* Mutant of NoopFunc: Noop passes End on.
NoopPassesEnd(a, e) ==
  [out |-> IF e = End THEN <<e>> ELSE <<>>, acc |-> a, panic |-> FALSE]

\* Noop: the empty function.
NoopFunc(a, e) == [out |-> <<>>, acc |-> a, panic |-> FALSE]

\* Mutant of ConcatFunc: the sum is emitted but not kept.
ConcatForgets(a, e) ==
  IF e.typ = "string"
    THEN [out |-> <<StringEvent(a \o e.s)>>, acc |-> a, panic |-> FALSE]
    ELSE [out |-> <<>>, acc |-> a, panic |-> TRUE]

\* strEv += e.(stringEvent); em.Emit(ctx, strEv): the type assertion panics
\* on an event that is no stringEvent.
ConcatFunc(a, e) ==
  IF e.typ = "string"
    THEN [out |-> <<StringEvent(a \o e.s)>>, acc |-> a \o e.s, panic |-> FALSE]
    ELSE [out |-> <<>>, acc |-> a, panic |-> TRUE]

LengthAny(a, e) ==
  IF e.typ = "string"
    THEN [out |-> <<e>>, acc |-> a, panic |-> FALSE]
    ELSE [out |-> <<>>, acc |-> a, panic |-> FALSE]

\* The transform of ExampleFilterBuilder: a stringEvent of length l is emitted
\* again, any other event (End too: the assertion is the two-valued form) is
\* dropped.
LengthFunc(a, e) ==
  IF e.typ = "string" /\ Len(e.s) = FilterLen
    THEN [out |-> <<e>>, acc |-> a, panic |-> FALSE]
    ELSE [out |-> <<>>, acc |-> a, panic |-> FALSE]

Transform(f, a, e) ==
  CASE f = "Fwd" -> FwdFunc(a, e)
    [] f = "Noop" -> NoopFunc(a, e)
    [] f = "Concat" -> ConcatFunc(a, e)
    [] f = "Length" -> LengthFunc(a, e)

\* Mutant of FilterCore: a filter of its own for each observable it is
\* registered on.
FilterCorePerUse(c) == IF c = "up" THEN "m" ELSE "m2"

\* The core on which the filter emits when the observable of core c
\* dispatches to it: the filter is one value, built by one Map() call (Fwd
\* and Noop in init), so it is the same core for every c.
FilterCore(c) == "m"

\* One iteration of the range loop whose observer is the Map filter:
\* mapFilter.OnEvent calls m.f(ctx, m.em, e), and an Emit of the transform is a
\* new frame on the filter's core.
MapOnEvent(t, k) ==
  /\ ~panicked
  /\ stack[t] /= <<>>
  /\ Top(t).pc = "range"
  /\ k \in ToVisit(Top(t))
  /\ regs[k].oer = TheFilter
  /\ recv' = [recv EXCEPT ![k] = Append(@, Delivery(Top(t).id))]
  /\ LET id == Top(t).id
         res == Transform(transform, acc, calls[id].ev)
         visited == SetTop(t, [Top(t) EXCEPT !.visited = @ \cup {k}])
     IN  /\ panicked' = res.panic
         /\ acc' = res.acc
         /\ IF res.out = <<>>
              THEN /\ stack' = visited
                   /\ UNCHANGED calls
              ELSE /\ calls' = Append(calls, [core |-> FilterCore(calls[id].core),
                                              ev |-> res.out[1],
                                              ctx |-> calls[id].ctx,
                                              depth |-> calls[id].depth + 1])
                   /\ stack' = [visited EXCEPT ![t] = Append(@,
                                  [id |-> Len(calls) + 1, pc |-> "lock",
                                   visited |-> {}, snap |-> {}])]
  /\ UNCHANGED <<observers, done, lock, regs, watch, cancelled, transform>>

\* Mutant of EmitReturn: every Emit closes the done channel.
EmitReturnAlwaysCloses(t) ==
  /\ ~panicked
  /\ stack[t] /= <<>>
  /\ Top(t).pc = "range"
  /\ ToVisit(Top(t)) = {}
  /\ done' = [done EXCEPT ![calls[Top(t).id].core] = TRUE]
  /\ lock' = [lock EXCEPT ![calls[Top(t).id].core] = NoThread]
  /\ stack' = [stack EXCEPT ![t] = Pop(@)]
  /\ UNCHANGED <<observers, regs, watch, cancelled, calls, recv, transform, acc,
                 panicked>>

\* Mutant of EmitReturn: End empties the registry.
EmitReturnUnsubscribes(t) ==
  /\ ~panicked
  /\ stack[t] /= <<>>
  /\ Top(t).pc = "range"
  /\ ToVisit(Top(t)) = {}
  /\ LET id == Top(t).id
         c == calls[id].core IN
     IF calls[id].ev = End /\ done[c]
       THEN /\ panicked' = TRUE
            /\ UNCHANGED <<observers, done, lock, stack>>
       ELSE /\ done' = [done EXCEPT ![c] = (@ \/ calls[id].ev = End)]
            /\ observers' = [observers EXCEPT ![c] =
                               IF calls[id].ev = End THEN {} ELSE @]
            /\ lock' = [lock EXCEPT ![c] = NoThread]
            /\ stack' = [stack EXCEPT ![t] = Pop(@)]
            /\ UNCHANGED panicked
  /\ UNCHANGED <<regs, watch, cancelled, calls, recv, transform, acc>>

\* The deferred Unlock, after close(em.done) when the event is End.  Closing a
\* closed channel panics: the process dies.
EmitReturn(t) ==
  /\ ~panicked
  /\ stack[t] /= <<>>
  /\ Top(t).pc = "range"
  /\ ToVisit(Top(t)) = {}
  /\ LET id == Top(t).id
         c == calls[id].core IN
     IF calls[id].ev = End /\ done[c]
       THEN /\ panicked' = TRUE
            /\ UNCHANGED <<done, lock, stack>>
       ELSE /\ done' = [done EXCEPT ![c] = (@ \/ calls[id].ev = End)]
            /\ lock' = [lock EXCEPT ![c] = NoThread]
            /\ stack' = [stack EXCEPT ![t] = Pop(@)]
            /\ UNCHANGED panicked
  /\ UNCHANGED <<observers, regs, watch, cancelled, calls, recv, transform, acc>>

\* The observers a program registers: one it has registered before, or the
\* next new one (s1 first).
NextSinks == ({regs[r].oer : r \in RegIds} \cap Sinks)
               \cup {IF \E r \in RegIds : regs[r].oer = "s1" THEN "s2" ELSE "s1"}

Next ==
  \/ \E o \in NextSinks, x \in Contexts : Register("up", o, x)
  \/ \E x \in Cancellable : Cancel(x)
  \/ \E r \in RegIds : WatcherDone(r)
  \/ \E r \in RegIds : WatcherDelete(r)
  \/ \E t \in Threads : EmitCall(t, EvA)
  \/ \E t \in Threads : EndCall(t)
  \/ \E t \in Threads, k \in RegIds : SinkOnEvent(t, k)
  \/ \E t \in Threads : EmitReturn(t)

Spec == Init /\ [][Next]_vars

\* mapFilter.Register: m.o.Register(ctx, oer).
MapRegister(o, x) == Register("m", o, x)

\* The program of ExampleFilter: it registers the filter on the observable of
\* Pair() and observers on the filter (or on the observable), all with
\* context.Background(), and its publishers emit when that is done.
FilterRegistered == \E r \in RegIds : regs[r].oer = TheFilter
PipelineBuilt == FilterRegistered /\ \E r \in RegIds : regs[r].core = "m"

PipeRegisterFilter ==
  /\ calls = <<>>
  /\ ~FilterRegistered
  /\ Register("up", TheFilter, Background)

PipeRegisterOnFilter(o) == calls = <<>> /\ MapRegister(o, Background)

PipeRegisterOnPair(o) == calls = <<>> /\ Register("up", o, Background)

PipeEmit(t, e) == PipelineBuilt /\ EmitCall(t, e)

PipeEnd(t) == PipelineBuilt /\ EndCall(t)

PipeInit == InitCore /\ transform \in Transforms

PipeNext ==
  \/ PipeRegisterFilter
  \/ \E o \in NextSinks : PipeRegisterOnFilter(o)
  \/ \E o \in NextSinks : PipeRegisterOnPair(o)
  \/ \E t \in Threads, e \in {EvA, EvB, Ev1234, EvAbcd} : PipeEmit(t, e)
  \/ \E t \in Threads : PipeEnd(t)
  \/ \E t \in Threads : EmitLock(t)
  \/ \E t \in Threads, k \in RegIds : SinkOnEvent(t, k)
  \/ \E t \in Threads, k \in RegIds : MapOnEvent(t, k)
  \/ \E t \in Threads : EmitReturn(t)
  \/ \E r \in RegIds : WatcherDone(r)

PipeSpec == PipeInit /\ [][PipeNext]_vars

\* The scheduler runs every goroutine that can take a step: a watcher whose
\* select has a ready case, and a publisher inside Emit.  (sync.Mutex hands
\* the lock to a waiter; the publishers make finitely many calls.)
Watcher(r) == r \in RegIds /\ (WatcherDone(r) \/ WatcherDelete(r))
Running(t) ==
  \/ EmitLock(t)
  \/ EmitReturn(t)
  \/ \E k \in RegIds : SinkOnEvent(t, k) \/ MapOnEvent(t, k)

FairSpec ==
  /\ Spec
  /\ \A r \in 1..MaxCalls : WF_vars(Watcher(r))
  /\ \A t \in Threads : WF_vars(Running(t))

\* The program of Example, statement by statement: the main goroutine
\* registers the printer with a cancellable context, emits two events, cancels,
\* sleeps until the watcher has removed the entry, emits a third event,
\* registers the printer with context.Background() and calls End.  Publisher
\* "t2" stands for its calls with the cancellable context, "t1" for the call
\* with context.Background().
ExIdle == \A t \in Threads : stack[t] = <<>>

ExRegisterFirst ==
  /\ regs = <<>>
  /\ Insert("up", "s1", "c1")
  /\ UNCHANGED stack

ExEmit(e) ==
  /\ ExIdle
  /\ Len(regs) = 1
  /\ \/ Len(calls) < 2
     \/ Len(calls) = 2 /\ watch[1] = "removed"
  /\ EmitOn("up", "t2", e)

ExCancel == ExIdle /\ Len(calls) = 2 /\ Cancel("c1")

ExRegisterSecond ==
  /\ ExIdle
  /\ Len(regs) = 1
  /\ Len(calls) = 3
  /\ Insert("up", "s1", Background)
  /\ UNCHANGED stack

ExEnd ==
  /\ ExIdle
  /\ Len(regs) = 2
  /\ Len(calls) = 3
  /\ EmitOn("up", "t1", End)

ExampleNext ==
  \/ ExRegisterFirst
  \/ \E e \in {EvA, EvB, Ev1234} : ExEmit(e)
  \/ ExCancel
  \/ ExRegisterSecond
  \/ ExEnd
  \/ \E t \in Threads, k \in RegIds : SinkOnEvent(t, k)
  \/ \E t \in Threads : EmitReturn(t)
  \/ \E r \in RegIds : WatcherDelete(r)
  \/ \E r \in RegIds : WatcherDone(r)

ExampleSpec == Init /\ [][ExampleNext]_vars

----------------------------------------------------------------------------
\* A pipeline in any interleaving: the filter (Fwd or Noop) is registered on
\* the observable of Pair() and printers on either stage, with any context,
\* while publishers emit on the head emitter and contexts are cancelled.  No
\* observer calls back into a core.
ChainInit == InitCore /\ transform \in {"Fwd", "Noop"}

ChainNext ==
  \/ \E x \in Contexts : ~FilterRegistered /\ Register("up", TheFilter, x)
  \/ \E x \in Contexts : Register("up", "s1", x)
  \/ \E x \in Contexts : MapRegister("s1", x)
  \/ \E x \in Cancellable : Cancel(x)
  \/ \E r \in RegIds : WatcherDone(r)
  \/ \E r \in RegIds : WatcherDelete(r)
  \/ \E t \in Threads : EmitCall(t, EvA)
  \/ \E t \in Threads : EndCall(t)
  \/ \E t \in Threads : EmitLock(t)
  \/ \E t \in Threads, k \in RegIds : SinkOnEvent(t, k)
  \/ \E t \in Threads, k \in RegIds : MapOnEvent(t, k)
  \/ \E t \in Threads : EmitReturn(t)

ChainSpec == ChainInit /\ [][ChainNext]_vars

ChainFairSpec ==
  /\ ChainSpec
  /\ \A r \in 1..MaxCalls : WF_vars(Watcher(r))
  /\ \A t \in Threads : WF_vars(Running(t))

----------------------------------------------------------------------------
\* Two pipelines that use the package-level Fwd: the program registers Fwd on
\* the observable of each and then a printer on Fwd for each, all with
\* context.Background(), and then the publisher of each pipeline emits on its
\* emitter.  The two registrations of Fwd are not counted among the calls.
UpstreamOf(t) == IF t = "t1" THEN "up" ELSE "up2"
OnFwd == {k \in RegIds : regs[k].core \in {FilterCore(c) : c \in Upstreams}}
FwdOn(c) == \E r \in RegIds : regs[r].core = c /\ regs[r].oer = TheFilter

SharedRegisterFwd(c) ==
  /\ calls = <<>>
  /\ ~FwdOn(c)
  /\ c = "up2" => FwdOn("up")
  /\ Insert(c, TheFilter, Background)
  /\ UNCHANGED stack

SharedCalls == Cardinality({k \in RegIds : regs[k].oer /= TheFilter})
                 + Cardinality(TopCalls)

SharedRegisterOnFwd(c, o) ==
  /\ calls = <<>>
  /\ SharedCalls < MaxCalls
  /\ \A u \in Upstreams : FwdOn(u)
  /\ \A k \in RegIds : regs[k].oer /= o
  /\ o = "s2" => \E k \in RegIds : regs[k].oer = "s1"
  /\ Insert(FilterCore(c), o, Background)
  /\ UNCHANGED stack

SharedEmit(t, e) ==
  /\ \A u \in Upstreams : FwdOn(u)
  /\ OnFwd /= {}
  /\ SharedCalls < MaxCalls
  /\ EmitOn(UpstreamOf(t), t, e)

SharedNext ==
  \/ \E c \in Upstreams : SharedRegisterFwd(c)
  \/ SharedRegisterOnFwd("up", "s1")
  \/ SharedRegisterOnFwd("up2", "s2")
  \/ \E t \in Threads : SharedEmit(t, EvA)
  \/ \E t \in Threads : SharedEmit(t, End)
  \/ \E t \in Threads : EmitLock(t)
  \/ \E t \in Threads, k \in RegIds : SinkOnEvent(t, k)
  \/ \E t \in Threads, k \in RegIds : MapOnEvent(t, k)
  \/ \E t \in Threads : EmitReturn(t)
  \/ \E r \in RegIds : WatcherDone(r)

SharedSpec == Init /\ [][SharedNext]_vars

----------------------------------------------------------------------------
\* Observers that call back into the core that dispatches to them: the
\* OnEvent of "re" calls Emit with the event it was handed, the OnEvent of
\* "rr" calls Register with a printer.
ReEmitter == "re"
ReRegistrar == "rr"

\* The frame of a Register call that has not yet got the lock.
RegisterFrame(c, o, x) ==
  [id |-> 0, pc |-> "register", visited |-> {}, snap |-> {},
   reg |-> [core |-> c, oer |-> o, ctx |-> x]]

\* Register calls that wait for the lock.
Pending == {t \in Threads : stack[t] /= <<>> /\ Top(t).pc = "register"}

\* A goroutine calls Register(ctx, oer) on the observable of core c: the call
\* is made, the lock not yet taken.
RegisterCall(t, c, o) ==
  /\ ~panicked
  /\ stack[t] = <<>>
  /\ CallsMade + Cardinality(Pending) < MaxCalls
  /\ stack' = [stack EXCEPT ![t] = <<RegisterFrame(c, o, Background)>>]
  /\ UNCHANGED <<observers, done, lock, regs, watch, cancelled, calls, recv,
                 transform, acc, panicked>>

\* o.lock.Lock() of a Register call succeeds: the entry is inserted, the
\* watcher started, and Register returns.
RegisterEnter(t) ==
  /\ stack[t] /= <<>>
  /\ Top(t).pc = "register"
  /\ Insert(Top(t).reg.core, Top(t).reg.oer, Top(t).reg.ctx)
  /\ stack' = [stack EXCEPT ![t] = Pop(@)]

\* One iteration of the range loop whose observer calls Emit on the core
\* that dispatches to it.
ReEmitOnEvent(t, k) ==
  /\ ~panicked
  /\ stack[t] /= <<>>
  /\ Top(t).pc = "range"
  /\ k \in ToVisit(Top(t))
  /\ regs[k].oer = ReEmitter
  /\ recv' = [recv EXCEPT ![k] = Append(@, Delivery(Top(t).id))]
  /\ LET id == Top(t).id IN
       /\ calls' = Append(calls, [core |-> regs[k].core, ev |-> calls[id].ev,
                                  ctx |-> calls[id].ctx,
                                  depth |-> calls[id].depth + 1])
       /\ stack' = [SetTop(t, [Top(t) EXCEPT !.visited = @ \cup {k}])
                     EXCEPT ![t] = Append(@, [id |-> Len(calls) + 1, pc |-> "lock",
                                              visited |-> {}, snap |-> {}])]
  /\ UNCHANGED <<observers, done, lock, regs, watch, cancelled, transform, acc,
                 panicked>>

\* One iteration of the range loop whose observer calls Register on the core
\* that dispatches to it.
ReRegisterOnEvent(t, k) ==
  /\ ~panicked
  /\ stack[t] /= <<>>
  /\ Top(t).pc = "range"
  /\ k \in ToVisit(Top(t))
  /\ regs[k].oer = ReRegistrar
  /\ recv' = [recv EXCEPT ![k] = Append(@, Delivery(Top(t).id))]
  /\ stack' = [SetTop(t, [Top(t) EXCEPT !.visited = @ \cup {k}])
                EXCEPT ![t] = Append(@, RegisterFrame(regs[k].core, "s2",
                                                      calls[Top(t).id].ctx))]
  /\ UNCHANGED <<observers, done, lock, regs, watch, cancelled, calls,
                 transform, acc, panicked>>

ReentNext ==
  \/ \E t \in Threads, o \in {"s1", ReEmitter, ReRegistrar, TheFilter} :
       RegisterCall(t, "up", o)
  \/ \E t \in Threads : RegisterCall(t, "m", "s1")
  \/ \E t \in Threads : RegisterEnter(t)
  \/ \E t \in Threads : Cardinality(Pending) = 0 /\ EmitCall(t, EvA)
  \/ \E t \in Threads : Cardinality(Pending) = 0 /\ EndCall(t)
  \/ \E t \in Threads : EmitLock(t)
  \/ \E t \in Threads, k \in RegIds : SinkOnEvent(t, k)
  \/ \E t \in Threads, k \in RegIds : ReEmitOnEvent(t, k)
  \/ \E t \in Threads, k \in RegIds : ReRegisterOnEvent(t, k)
  \/ \E t \in Threads, k \in RegIds : MapOnEvent(t, k)
  \/ \E t \in Threads : EmitReturn(t)

ReentSpec == Init /\ [][ReentNext]_vars

\* The scheduler runs every goroutine that can take a step.
ReentRunning(t) ==
  \/ RegisterEnter(t)
  \/ EmitLock(t)
  \/ EmitReturn(t)
  \/ \E k \in RegIds : \/ SinkOnEvent(t, k) \/ MapOnEvent(t, k)
                       \/ ReEmitOnEvent(t, k) \/ ReRegisterOnEvent(t, k)

ReentFairSpec == ReentSpec /\ \A t \in Threads : WF_vars(ReentRunning(t))

----------------------------------------------------------------------------
\* Vocabulary of the properties.

\* How often the entry with key k was handed the event of Emit call id.
Count(id, k) == Cardinality({i \in 1..Len(recv[k]) : recv[k][i].id = id})

\* How often observer o was handed the event of Emit call id, over all entries.
CountObserver(id, o) ==
  Cardinality({<<k, i>> \in RegIds \X CallIds :
                 /\ i <= Len(recv[k])
                 /\ recv[k][i].id = id
                 /\ regs[k].oer = o})

\* Frames that hold the lock and run the range loop; those that have finished it.
Dispatching == {f \in Frames : f.pc = "range"}
Dispatched == {f \in Dispatching : ToVisit(f) = {}}

InRegistry(r) == regs[r].key \in observers[regs[r].core]

\* C1: during an Emit call exactly the entries that were in the registry when
\* the call took the lock are handed the call's event and context, each once,
\* and all of them have been when the loop ends (before Emit returns); nothing
\* outside that registry is invoked.
EmitDeliversOnce ==
  /\ \A f \in Dispatching :
       /\ f.visited \subseteq f.snap
       /\ \A k \in RegIds : Count(f.id, k) = (IF k \in f.visited THEN 1 ELSE 0)
  /\ \A f \in Dispatched : f.visited = f.snap
  /\ \A k \in RegIds : \A i \in 1..Len(recv[k]) :
       /\ recv[k][i].ev = calls[recv[k][i].id].ev
       /\ recv[k][i].ctx = calls[recv[k][i].id].ctx
       /\ regs[k].core = calls[recv[k][i].id].core
       /\ Count(recv[k][i].id, k) = 1

\* Witness of C1: a dispatch over two entries has ended.
EmitDeliversOnceWitness ==
  \E f \in Dispatched : Cardinality(f.snap) = 2 /\ f.visited = f.snap

\* C2 (as claimed): emitting End twice does not fault.
EndTwiceNoFault == ~panicked

----------------------------------------------------------------------------

\* C3 (as claimed): once its context is cancelled a registration is
\* eventually removed, whatever happened on the core before.
CancelledEventuallyRemovedAlways ==
  \A r \in 1..MaxCalls :
    (r \in RegIds /\ IsCancelled(regs[r].ctx)) ~> (r \in RegIds /\ ~InRegistry(r))

\* C3 (amended): once its context is cancelled a registration is eventually
\* removed, unless the done signal of its core has been closed (the watcher
\* may then have returned through the done case); and an entry that is out of
\* the registry is handed no further event.  A cancellation, a removal and a
\* closed done signal are for good (the second conjunct), so "cancelled
\* leads to removed or done" is stated as: from some point on, every
\* registration whose context is cancelled is removed or on a core that is done.
Settled(r) == ~InRegistry(r) \/ done[regs[r].core]

CancelledEventuallyRemoved ==
  /\ <>[](\A r \in RegIds : IsCancelled(regs[r].ctx) => Settled(r))
  /\ [][\A r \in RegIds :
          /\ IsCancelled(regs[r].ctx) => IsCancelled(regs[r].ctx)'
          /\ Settled(r) => Settled(r)'
          /\ ~InRegistry(r) => recv'[r] = recv[r]]_vars

\* Witness of C3: a registration that got an event was removed after its
\* context was cancelled, on a core that has not ended, and a later Emit has
\* returned without reaching it.
CancelledEventuallyRemovedWitness ==
  \E r \in RegIds :
    /\ IsCancelled(regs[r].ctx) /\ ~InRegistry(r) /\ ~done[regs[r].core]
    /\ recv[r] /= <<>>
    /\ \E id \in CallIds : Count(id, r) = 0 /\ id > recv[r][1].id
                           /\ \A f \in Frames : f.id /= id

\* C4: a registration whose context has not been cancelled is in the
\* registry: neither Emit, End, a Register nor the cancellation of another
\* context removes it.
RemovedOnlyWhenCancelled ==
  \A r \in RegIds : ~IsCancelled(regs[r].ctx) => InRegistry(r)

\* Witness of C4: after End and with one registration removed by its
\* cancellation, a registration with another context is still there.
RemovedOnlyWhenCancelledWitness ==
  \E r1, r2 \in RegIds :
    /\ regs[r1].ctx /= regs[r2].ctx
    /\ IsCancelled(regs[r1].ctx) /\ ~InRegistry(r1)
    /\ InRegistry(r2)
    /\ done[regs[r2].core] /\ watch[r2] = "exited"

\* C5: when the range loop of an Emit ends, every registration made on its
\* core whose context is not cancelled has been handed the event (Register
\* and Emit exclude each other, so each was made before the call took the lock).
RegisteredSeesLaterEmits ==
  \A f \in Dispatched : \A r \in RegIds :
    (regs[r].core = calls[f.id].core /\ ~IsCancelled(regs[r].ctx))
      => Count(f.id, regs[r].key) = 1

\* Witness of C5: a registration made after one Emit call is reached by the next.
RegisteredSeesLaterEmitsWitness ==
  \E f \in Dispatched : \E r \in RegIds :
    /\ ~IsCancelled(regs[r].ctx) /\ Count(f.id, r) = 1
    /\ \E id \in CallIds : id < f.id /\ Count(id, r) = 0

\* C6: at most one Emit runs its range loop on a core at a time and it holds
\* the lock, the registry does not change under it, and every entry is
\* handed the events in the order in which the calls took the lock (calls are
\* numbered in that order), so that any two entries agree on the order of
\* any two events.
EmitsAreSerialized ==
  /\ \A f \in Dispatching : \A g \in Dispatching :
       calls[f.id].core = calls[g.id].core => f = g
  /\ \A t \in Threads : \A i \in 1..Len(stack[t]) :
       stack[t][i].pc = "range" => lock[calls[stack[t][i].id].core] = t
  /\ \A f \in Dispatching : observers[calls[f.id].core] = f.snap
  /\ \A k \in RegIds : \A i \in 1..Len(recv[k]) : \A j \in 1..Len(recv[k]) :
       i < j => recv[k][i].id < recv[k][j].id

\* Witness of C6: two entries have each been handed the events of two calls
\* made by different publishers.
EmitsAreSerializedWitness ==
  \E k1 \in RegIds : \E k2 \in RegIds :
    /\ k1 /= k2
    /\ Len(recv[k1]) = 2 /\ Len(recv[k2]) = 2
    /\ recv[k1][1].ctx /= recv[k1][2].ctx
    /\ recv[k2][1].id = recv[k1][1].id

\* C7: every Register call has an entry of its own, so when the range loop
\* of an Emit ends an observer has been handed the event once for each of its
\* registrations that no cancellation has removed.
EachRegisterOwnEntry ==
  /\ \A r1 \in RegIds : \A r2 \in RegIds : r1 /= r2 => regs[r1].key /= regs[r2].key
  /\ \A f \in Dispatched : \A o \in Sinks :
       CountObserver(f.id, o) =
         Cardinality({r \in RegIds : /\ regs[r].oer = o
                                     /\ regs[r].core = calls[f.id].core
                                     /\ watch[r] /= "removed"})

\* Witness of C7: an observer registered twice with two contexts was handed one
\* event twice; one context was cancelled, its entry removed, and the next
\* event was handed to it once.
EachRegisterOwnEntryWitness ==
  \E r1, r2 \in RegIds : \E f \in Dispatched :
    /\ r1 /= r2 /\ regs[r1].oer = regs[r2].oer /\ regs[r1].ctx /= regs[r2].ctx
    /\ watch[r1] = "removed" /\ InRegistry(r2)
    /\ \E id \in CallIds : CountObserver(id, regs[r1].oer) = 2
    /\ CountObserver(f.id, regs[r1].oer) = 1

----------------------------------------------------------------------------

\* The publishers' Emit calls in the order in which they took the lock, and
\* the events of the first n of them.
TopCall(j) == CHOOSE id \in TopCalls : Cardinality({i \in TopCalls : i < id}) = j - 1
Upstream == [j \in 1..Cardinality(TopCalls) |-> calls[TopCall(j)].ev]
Received(k) == [i \in 1..Len(recv[k]) |-> recv[k][i].ev]
IsPrefix(a, b) == Len(a) <= Len(b) /\ a = SubSeq(b, 1, Len(a))

\* The publishers' calls that have returned.
Returned == {id \in TopCalls : \A f \in Frames : f.id /= id}

\* The entries registered on the Map filter.
OnFilter == {k \in RegIds : regs[k].core = "m"}

NoopIsSilent ==
  transform = "Noop" => \A k \in OnFilter : recv[k] = <<>>

\* Witness of C9: Noop was handed two upstream events, End among them, with an
\* observer registered on it.
NoopIsSilentWitness ==
  /\ transform = "Noop"
  /\ OnFilter /= {}
  /\ \E r \in RegIds : /\ regs[r].oer = TheFilter
                       /\ Len(recv[r]) = 2
                       /\ recv[r][2].ev = End
  /\ Cardinality(Returned) = 2

\* The concatenation of the payloads of the first n upstream events.
RECURSIVE Sum(_)
Sum(n) == IF n = 0 THEN <<>> ELSE Sum(n - 1) \o Upstream[n].s

\* C10: the Map filter's transform is run once for each upstream event, in
\* upstream order, and for the concatenating transform the i-th event handed
\* to an observer behind it is the concatenation of the first i upstream
\* payloads, handed over before the i-th upstream Emit returns.
MapConcatenates ==
  transform = "Concat" =>
    /\ \A r \in RegIds : regs[r].oer = TheFilter =>
         /\ IsPrefix(Received(r), Upstream)
         /\ Len(recv[r]) >= Cardinality(Returned)
    /\ \A k \in OnFilter :
         /\ Len(recv[k]) <= Cardinality(TopCalls)
         /\ Len(recv[k]) >= Cardinality(Returned)
         /\ \A i \in 1..Len(recv[k]) : recv[k][i].ev = StringEvent(Sum(i))

\* Witness of C10: behind the concatenating Map an observer has been handed a
\* and then ab.
MapConcatenatesWitness ==
  /\ transform = "Concat"
  /\ \E k \in OnFilter :
       Received(k) = <<StringEvent(<<"a">>), StringEvent(<<"a", "b">>)>>
  /\ Cardinality(Returned) = 2

\* The events that the length filter lets through.
LengthPasses(e) == e.typ = "string" /\ Len(e.s) = FilterLen

\* C11: behind a Map filter whose transform emits again only the events of
\* payload length 4, an observer is handed exactly the upstream events of that
\* length, in upstream order and each before its upstream Emit returns; the
\* transform itself is run on every upstream event.
MapFiltersByLength ==
  transform = "Length" =>
    /\ \A r \in RegIds : regs[r].oer = TheFilter =>
         /\ IsPrefix(Received(r), Upstream)
         /\ Len(recv[r]) >= Cardinality(Returned)
    /\ \A k \in OnFilter :
         /\ IsPrefix(Received(k), SelectSeq(Upstream, LengthPasses))
         /\ Len(recv[k]) >= Cardinality({id \in Returned : LengthPasses(calls[id].ev)})

\* Witness of C11: of two upstream events that have returned, the first too
\* short, the observer behind the filter was handed the second only.
MapFiltersByLengthWitness ==
  /\ transform = "Length"
  /\ Upstream = <<EvA, Ev1234>>
  /\ Cardinality(Returned) = 2
  /\ \E k \in OnFilter : Received(k) = <<Ev1234>>

\* C12: in the program of Example the first registration is handed exactly the
\* first two events (each before its Emit returns), the third event is handed
\* to nobody, and the second registration is handed End only: when End has
\* returned the printer has seen the first two events and End.
ExampleOutput ==
  /\ \A r \in RegIds : r = 1 =>
       /\ IsPrefix(Received(r), Upstream)
       /\ Len(recv[r]) <= 2
       /\ Len(recv[r]) >= Cardinality(Returned \cap {1, 2})
  /\ \A r \in RegIds : Count(3, r) = 0
  /\ \A r \in RegIds : r = 2 =>
       /\ IsPrefix(Received(r), <<End>>)
       /\ Len(recv[r]) >= Cardinality(Returned \cap {4})

\* Witness of C12: End has returned; the first registration was handed two
\* different events, the second End, and four Emit calls were made.
ExampleOutputWitness ==
  /\ Len(calls) = 4 /\ Returned = {1, 2, 3, 4}
  /\ Len(regs) = 2
  /\ Received(1) = <<EvA, EvB>>
  /\ Received(2) = <<End>>
  /\ calls[3].ev = Ev1234

\* A goroutine whose innermost call waits for a lock that the goroutine
\* itself holds: an Emit called from OnEvent, a Register called from OnEvent.
SelfBlocked(t) ==
  stack[t] /= <<>> /\ Top(t).pc = "lock" /\ lock[calls[Top(t).id].core] = t
RegBlocked(t) == t \in Pending /\ lock[Top(t).reg.core] = t

\* C13: an Emit (or End) that OnEvent calls on the core that is dispatching
\* to it never gets the lock: its event is handed to nobody, the goroutine
\* stays where it is with the lock held, so the outer Emit never returns, and
\* no panic reports it.
EmitNotReentrant ==
  /\ [](\A t \in Threads : \A i \in 1..Len(stack[t]) : \A j \in 1..Len(stack[t]) :
         (/\ j < i
          /\ stack[t][i].pc /= "register"
          /\ calls[stack[t][j].id].core = calls[stack[t][i].id].core)
           => /\ stack[t][i].pc = "lock"
              /\ \A k \in RegIds : Count(stack[t][i].id, k) = 0)
  /\ [][\A t \in Threads : SelfBlocked(t) =>
          /\ SelfBlocked(t)'
          /\ stack'[t] = stack[t]
          /\ panicked' = panicked]_vars

\* Witness of C13: an observer handed End has called Emit with it on its own
\* core, and the goroutine waits for the lock it holds.
EmitNotReentrantWitness ==
  \E t \in Threads :
    /\ SelfBlocked(t) /\ Len(stack[t]) = 2
    /\ calls[Top(t).id].ev = End
    /\ calls[Top(t).id].core = calls[stack[t][1].id].core

\* C14 (as claimed): every registration in the registry has a watcher that
\* is still running, also after End.
InRegistryHasWatcherAlways ==
  \A r \in RegIds : InRegistry(r) => watch[r] = "select"

\* C14 (amended): every registration in the registry of a core whose done
\* signal is not closed has a watcher that is still running; and exactly the
\* registrations whose watcher has returned through the done case are in the
\* registry without a watcher: they stay there for good.
InRegistryHasWatcher ==
  /\ \A r \in RegIds :
       (InRegistry(r) /\ ~done[regs[r].core]) => watch[r] = "select"
  /\ \A r \in RegIds :
       (InRegistry(r) /\ watch[r] /= "select")
         <=> (watch[r] = "exited" /\ done[regs[r].core])

\* Witness of C14: after End a registration that was handed an event is in the
\* registry and its watcher has returned; a registration made later still
\* has its watcher.
InRegistryHasWatcherWitness ==
  \E r1, r2 \in RegIds :
    /\ InRegistry(r1) /\ watch[r1] = "exited" /\ done[regs[r1].core]
    /\ InRegistry(r2) /\ watch[r2] = "select" /\ r2 > r1
    /\ recv[r1] /= <<>>

\* C15: the done signal of a core goes from open to closed only in the step in
\* which an Emit of End on that core returns, after its range loop has handed
\* End once to every entry of the registry; no Emit of another event closes
\* it; and a closed done signal stays closed.
DoneClosedByEnd ==
  [][\A c \in Cores :
       /\ done[c] => done'[c]
       /\ (~done[c] /\ done'[c]) =>
            \E t \in Threads :
              /\ stack[t] /= <<>>
              /\ Top(t) \in Dispatched
              /\ calls[Top(t).id].core = c
              /\ calls[Top(t).id].ev = End
              /\ Top(t).visited = observers[c]
              /\ \A k \in observers[c] :
                   /\ Count(Top(t).id, k) = 1
                   /\ recv[k][Len(recv[k])].ev = End
              /\ stack'[t] = Pop(stack[t])]_vars

\* Witness of C15: a registration was handed an event, then End, then another
\* event: the done signal was open after the first Emit, closed by the End,
\* and is closed after the third.
DoneClosedByEndWitness ==
  /\ done["up"]
  /\ \A t \in Threads : stack[t] = <<>>
  /\ \E k \in RegIds : Received(k) = <<EvA, End, EvA>>

\* C17: an Emit of End leaves the registry as it found it, and an Emit of
\* another event on a core whose done signal is closed hands the event once to
\* every entry of the registry (those registered after End too), to nothing
\* else, and returns without a panic, releasing the lock.
EndKeepsRegistry ==
  /\ [](\A f \in Dispatching : calls[f.id].ev = End =>
          observers[calls[f.id].core] = f.snap)
  /\ [][(done' /= done) => observers' = observers]_vars
  /\ [](\A f \in Dispatched :
          (done[calls[f.id].core] /\ calls[f.id].ev /= End) =>
            \A k \in RegIds :
              Count(f.id, k) = (IF InRegistry(k) /\ regs[k].core = calls[f.id].core
                                 THEN 1 ELSE 0))
  /\ [][\A t \in Threads :
          (/\ stack[t] /= <<>>
           /\ Top(t) \in Dispatched
           /\ done[calls[Top(t).id].core]
           /\ calls[Top(t).id].ev /= End
           /\ stack'[t] /= stack[t])
            => /\ stack'[t] = Pop(stack[t])
               /\ lock'[calls[Top(t).id].core] = NoThread
               /\ ~panicked']_vars

\* Witness of C17: after End an Emit of another event has run its loop over a
\* registration made before End (handed End, then the event) and one made
\* after End (handed the event only).
EndKeepsRegistryWitness ==
  \E f \in Dispatched : \E r1, r2 \in f.snap :
    /\ done[calls[f.id].core]
    /\ Received(r1) = <<End, EvA>>
    /\ Received(r2) = <<EvA>>

\* A goroutine that cannot go on for good: it waits for a lock it holds
\* itself.
Stuck(t) == SelfBlocked(t) \/ RegBlocked(t)

\* C19: a Register that OnEvent calls on the core that is dispatching to it
\* never gets the lock: nothing is inserted, the goroutine stays where it is
\* and the outer Emit never returns.  No step changes the registry of a core
\* whose lock a dispatch holds, so a Register of another goroutine inserts
\* nothing while the dispatch runs; and it does complete: from some point on
\* the only Register calls that still wait are those whose lock is held by a
\* goroutine that is stuck for good, or the process has died of a panic.
RegisterSharesLock ==
  /\ [][\A t \in Threads : RegBlocked(t) =>
          /\ RegBlocked(t)'
          /\ stack'[t] = stack[t]
          /\ observers'[Top(t).reg.core] = observers[Top(t).reg.core]]_vars
  /\ [][\A c \in Cores : \A f \in Dispatching :
          calls[f.id].core = c => observers'[c] = observers[c]]_vars
  /\ <>[](\A t \in Pending :
            \/ panicked
            \/ /\ lock[Top(t).reg.core] \in Threads
               /\ Stuck(lock[Top(t).reg.core]))

\* Witness of C19: an observer handed an event has called Register on its
\* own core and waits for the lock its goroutine holds, while the Register
\* call of another goroutine waits for the same lock.
RegisterSharesLockWitness ==
  \E t, u \in Threads :
    /\ t /= u
    /\ RegBlocked(t) /\ Len(stack[t]) = 2
    /\ u \in Pending /\ Top(u).reg.core = Top(t).reg.core

\* C20: there is one watcher for each Register call; from some point on no
\* watcher is left running whose core has ended or whose context is
\* cancelled (a panic ends the process and every goroutine with it); a watcher
\* that returns through the done case leaves the registry as it is; and a
\* watcher whose core has not ended and whose context is not cancelled makes no
\* step.
WatchersTerminate ==
  /\ [](Len(watch) = Len(regs))
  /\ <>[](\A r \in RegIds :
            (done[regs[r].core] \/ IsCancelled(regs[r].ctx))
              => (watch[r] /= "select" \/ panicked))
  /\ [][\A r \in RegIds :
          /\ (watch[r] = "select" /\ watch'[r] = "exited") =>
               (done[regs[r].core] /\ observers' = observers)
          /\ (watch[r] = "select" /\ ~done[regs[r].core]
                                  /\ ~IsCancelled(regs[r].ctx)) =>
               watch'[r] = "select"
          /\ watch[r] /= "select" => watch'[r] = watch[r]]_vars

\* Witness of C20: on a core that has ended one watcher has returned through
\* the done case with its entry left in the registry, another had removed its
\* entry on cancellation before.
WatchersTerminateWitness ==
  \E r1, r2 \in RegIds :
    /\ done[regs[r1].core]
    /\ watch[r1] = "exited" /\ InRegistry(r1)
    /\ watch[r2] = "removed" /\ ~InRegistry(r2)
    /\ Received(r2) = <<EvA>>
    /\ Received(r1) = <<EvA, End>>

\* The Emit that Fwd made when it was handed the event of the publisher's
\* call id: the next call from inside a dispatch with the context of call id
\* (a publisher is inside one call at a time).
Children(id) == {n \in CallIds : /\ n > id /\ calls[n].depth = 2
                                 /\ calls[n].ctx = calls[id].ctx}
Child(id) == CHOOSE n \in Children(id) : \A n2 \in Children(id) : n <= n2

\* C18: with Fwd registered on two observables, every observer registered on
\* Fwd (by either pipeline) has been handed, once, the event of every Emit call
\* that has returned on either emitter, and an End emitted on one of them has
\* closed the one done signal of Fwd: Fwd has one core, whatever observable
\* dispatches to it.
FwdIsShared ==
  /\ \A id \in Returned :
       /\ Children(id) /= {}
       /\ calls[Child(id)].ev = calls[id].ev
       /\ \A k \in OnFwd : Count(Child(id), k) = 1
       /\ calls[id].ev = End =>
            \A c \in Upstreams : done[FilterCore(c)]
  /\ \A k \in OnFwd : \A i \in 1..Len(recv[k]) :
       \E id \in TopCalls : Children(id) /= {} /\ recv[k][i].id = Child(id)

\* Witness of C18: the observers that the two pipelines registered on Fwd
\* were both handed an event emitted on the first emitter and then End emitted
\* on the second, which closed the done signal of Fwd and of the second
\* observable only.
FwdIsSharedWitness ==
  /\ \E id1, id2 \in Returned :
       /\ calls[id1].core = "up" /\ calls[id1].ev = EvA
       /\ calls[id2].core = "up2" /\ calls[id2].ev = End
  /\ Cardinality(OnFwd) = 2
  /\ \A k \in OnFwd : Received(k) = <<EvA, End>>
  /\ done["m"] /\ done["up2"] /\ ~done["up"]

\* The stages of the pipeline, in call order.
Stage(c) == IF c = "up" THEN 1 ELSE 2

\* C16 (as claimed): in a pipeline without re-entrant observers a goroutine
\* takes the locks one per stage in call order, a goroutine that waits for a
\* lock waits for one whose holder is running its range loop, and every Emit
\* returns: from some point on no goroutine is inside Emit.
PipelineEmitsReturn ==
  /\ [](\A t \in Threads : \A i \in 1..Len(stack[t]) :
         /\ Stage(calls[stack[t][i].id].core) = i
         /\ i < Len(stack[t]) => stack[t][i].pc = "range")
  /\ [](\A t \in Threads : \A c \in Cores :
         (stack[t] /= <<>> /\ Top(t).pc = "lock" /\ calls[Top(t).id].core = c
            /\ lock[c] /= NoThread)
           => (lock[c] /= t /\ Top(lock[c]).pc = "range"
                            /\ calls[Top(lock[c]).id].core = c))
  /\ <>[](\A t \in Threads : stack[t] = <<>>)

\* The same with the double End of C2 set apart: no deadlock, and every Emit
\* returns unless the process has died of the panic.
PipelineNeverDeadlocks ==
  /\ [](\A t \in Threads : \A i \in 1..Len(stack[t]) :
         /\ Stage(calls[stack[t][i].id].core) = i
         /\ i < Len(stack[t]) => stack[t][i].pc = "range")
  /\ [](\A t \in Threads : \A c \in Cores :
         (stack[t] /= <<>> /\ Top(t).pc = "lock" /\ calls[Top(t).id].core = c
            /\ lock[c] /= NoThread)
           => (lock[c] /= t /\ Top(lock[c]).pc = "range"
                            /\ calls[Top(lock[c]).id].core = c))
  /\ <>[](panicked \/ \A t \in Threads : stack[t] = <<>>)

----------------------------------------------------------------------------

====
